---- MODULE Spec2Model ----
(***************************************************************************)
(* A model of MEG/tools.py: power_spectrum_fit, cohend, tukeyhsd and       *)
(* plot_MEG_volumes.  The four functions are stateless; each is modelled   *)
(* as one action that takes the call's arguments (and the answers of the   *)
(* external libraries it calls) from the state written by Init and writes  *)
(* the call's outcome: the value returned, the exception raised, or the    *)
(* drawing left on the axes.                                               *)
(*                                                                         *)
(* Numbers.  Samples are integers.  A float computed from them is held     *)
(* exactly, as a reduced fraction with a NaN flag (Flt); a square root is  *)
(* held by the fraction under the root.  p-values are held in units of     *)
(* 1/10000, axis coordinates in tenths of a data unit.                     *)
(***************************************************************************)
EXTENDS Integers, Sequences, FiniteSets, TLC

VARIABLES
    call,      \* which function the state is about, and whether it has run
    d1, d2,    \* cohend: the two samples
    dout,      \* cohend: what the calls returned, <<cohend(d1,d2), cohend(d2,d1)>>
    x,         \* tukeyhsd: the groups, a sequence of samples
    pvalues,   \* tukeyhsd: tukey.pvalues, as pairwise_tukeyhsd answered
    Vax,       \* tukeyhsd: the axes: ylim, texts, lines
    pv, dv,    \* the label of one annotation: its p-value and Cohen's d
    label,     \* the label of one annotation: star_label
    fit,       \* power_spectrum_fit: arguments and the fitter's results
    fitout,    \* power_spectrum_fit: outcome
    plotin,    \* plot_MEG_volumes: arguments
    plotout    \* plot_MEG_volumes: outcome

vars == <<call, d1, d2, dout, x, pvalues, Vax, pv, dv, label, fit, fitout,
          plotin, plotout>>

\* A variable that no statement has assigned yet, and one that holds v.
Unset == <<>>

Bound(v) == <<v>>

Val(b) == b[1]

(***************************************************************************)
(* Bounds of the model.                                                    *)
(***************************************************************************)
MaxN == 2          \* longest sample
MaxVal == 2        \* largest sample value

Samples == UNION {[1..n -> 0..MaxVal] : n \in 0..MaxN}

(***************************************************************************)
(* Exact arithmetic on the floats the code computes.                       *)
(***************************************************************************)
\* F(e), with e worked out once however often F uses it: a device of the
\* evaluation, with no counterpart in the program.
Once(e, F(_)) == CHOOSE r \in {F(v) : v \in {e}} : TRUE

Abs(a) == IF a < 0 THEN -a ELSE a

Sign(a) == IF a < 0 THEN -1 ELSE IF a > 0 THEN 1 ELSE 0

RECURSIVE GCD(_, _)
GCD(a, b) == IF b = 0 THEN a ELSE Once(a % b, LAMBDA r : GCD(b, r))

RECURSIVE SumSeq(_)
SumSeq(s) == IF s = <<>> THEN 0 ELSE Head(s) + SumSeq(Tail(s))

\* A float: NaN, or the fraction num/den with den > 0.
NaN == [nan |-> TRUE, num |-> 0, den |-> 1]

Flt(n, d) ==
    IF d = 0 THEN NaN
    ELSE IF d < 0 THEN [nan |-> FALSE, num |-> -n, den |-> -d]
    ELSE [nan |-> FALSE, num |-> n, den |-> d]

\* The same float with its fraction in lowest terms: two floats are the same
\* number exactly when their lowest terms are the same.
Lowest(f) ==
    IF f.nan THEN NaN
    ELSE Once(GCD(Abs(f.num), f.den), LAMBDA g :
             [nan |-> FALSE, num |-> f.num \div g, den |-> f.den \div g])

FAdd(a, b) ==
    Once(<<a, b>>, LAMBDA ab :
        IF ab[1].nan \/ ab[2].nan THEN NaN
        ELSE Flt(ab[1].num * ab[2].den + ab[2].num * ab[1].den, ab[1].den * ab[2].den))

FSub(a, b) ==
    Once(<<a, b>>, LAMBDA ab :
        IF ab[1].nan \/ ab[2].nan THEN NaN
        ELSE Flt(ab[1].num * ab[2].den - ab[2].num * ab[1].den, ab[1].den * ab[2].den))

FMul(a, b) ==
    Once(<<a, b>>, LAMBDA ab :
        IF ab[1].nan \/ ab[2].nan THEN NaN
        ELSE Flt(ab[1].num * ab[2].num, ab[1].den * ab[2].den))

\* a / b for b # 0 (the divisions by zero of the code are spelled out where
\* they happen).
FDiv(a, b) ==
    Once(<<a, b>>, LAMBDA ab :
        IF ab[1].nan \/ ab[2].nan THEN NaN
        ELSE Flt(ab[1].num * ab[2].den, ab[1].den * ab[2].num))

FInt(n) == Flt(n, 1)

\* np.mean(d): the sum over the length; 0/0 = nan for an empty sample.
np_mean(d) == Flt(SumSeq(d), Len(d))

\* np.var(d, ddof=1): the squared deviations from the mean, summed, over
\* len(d) - 1; nan when len(d) <= 1 (0/0, or the mean of nothing).  With n
\* the length and S the sum, the deviation of v from the mean is
\* (n*v - S)/n.
RECURSIVE SumSqDev(_, _, _)
SumSqDev(d, n, S) ==
    IF d = <<>> THEN 0
    ELSE (n * Head(d) - S) * (n * Head(d) - S) + SumSqDev(Tail(d), n, S)

np_var(d) ==
    IF Len(d) <= 1 THEN NaN
    ELSE Once(<<Len(d), SumSeq(d)>>, LAMBDA nS :
              Flt(SumSqDev(d, nS[1], nS[2]), nS[1] * nS[1] * (nS[1] - 1)))

(***************************************************************************)
(* cohend(d1, d2).  The value returned is nan, +-inf, or sign * sqrt(sq)   *)
(* with sq a fraction: the quotient of the mean difference by the square   *)
(* root s of the pooled variance.                                          *)
(***************************************************************************)
DNaN == [kind |-> "nan", sign |-> 0, sq |-> NaN]

DInf(sg) == [kind |-> "inf", sign |-> sg, sq |-> NaN]

DFin(sg, q) == [kind |-> "fin", sign |-> sg, sq |-> q]

\* Mutant of pooled: the variance of the first sample taken for both.
pooled_first_variance(a, b) ==
    LET n1 == Len(a)
        n2 == Len(b)
        s1 == np_var(a)
        top == FAdd(FMul(FInt(n1 - 1), s1), FMul(FInt(n2 - 1), s1))
    IN  IF n1 + n2 - 2 = 0 THEN NaN ELSE FDiv(top, FInt(n1 + n2 - 2))

\* The variance under the root of line 99: ((n1-1)*s1 + (n2-1)*s2) / (n1+n2-2).
pooled(a, b) ==
    LET n1 == Len(a)
        n2 == Len(b)
        s1 == np_var(a)
        s2 == np_var(b)
        top == FAdd(FMul(FInt(n1 - 1), s1), FMul(FInt(n2 - 1), s2))
    IN  IF n1 + n2 - 2 = 0 THEN NaN ELSE FDiv(top, FInt(n1 + n2 - 2))

\* (u1 - u2) / s for s = sqrt(var): float division, x/0 = +-inf, 0/0 = nan.
DivBySqrt(diff, var) ==
    IF diff.nan \/ var.nan THEN DNaN
    ELSE IF var.num = 0
         THEN IF diff.num = 0 THEN DNaN ELSE DInf(Sign(diff.num))
         ELSE DFin(Sign(diff.num), Lowest(FDiv(FMul(diff, diff), var)))

cohend(a, b) ==
    LET s  == pooled(a, b)
        u1 == np_mean(a)
        u2 == np_mean(b)
    IN  Once(s, LAMBDA sv : Once(FSub(u1, u2), LAMBDA df : DivBySqrt(df, sv)))

\* -d as floats negate: nan stays nan.
DNeg(d) == [d EXCEPT !.sign = -d.sign]

\* d == e as floats compare: nan equals nothing, itself included.
DEq(d, e) == d.kind # "nan" /\ e.kind # "nan" /\ d = e

(***************************************************************************)
(* The label of an annotation, lines 149-154.  A p-value is a whole number *)
(* of 1/10000; P01 and P001 are the thresholds 0.01 and 0.001 in that      *)
(* unit.                                                                   *)
(***************************************************************************)
P01 == 100

P001 == 10

MaxP == 10000      \* the p-value 1.0

\* The p-values that get formatted: the floats nearest to n/10000.
PGrid == 0..MaxP

\* 2^e modulo q.
RECURSIVE PowMod2(_, _)
PowMod2(e, q) == IF e = 0 THEN 1 % q ELSE (2 * PowMod2(e - 1, q)) % q

\* "%.2f" formats the float, not the decimal it was written as.  For a > 0
\* and q odd, the float nearest to a / (2^s * q) is m / 2^(e + s), m the whole
\* number of 53 bits nearest to a * 2^e / q; it is that value exactly (0)
\* when q divides a * 2^e, and else lies above (1) or below (-1) it as the
\* remainder of a * 2^e by q is more or less than q / 2.
DoubleSide(a, q) ==
    LET j == IF a < 2 * q
             THEN CHOOSE i \in 0..10 : q <= a * 2^i /\ a * 2^i < 2 * q
             ELSE -(CHOOSE i \in 1..11 : q * 2^i <= a /\ a < 2 * q * 2^i)
        r == ((a % q) * PowMod2(52 + j, q)) % q
    IN  IF r = 0 THEN 0 ELSE IF 2 * r > q THEN 1 ELSE -1

\* The hundredths "%.2f" prints for a float nearest to the midpoint of
\* up - 1 and up hundredths: the side of the float decides, and a float that
\* is the midpoint goes to the even hundredth.
HalfWay(up, side) ==
    IF side > 0 THEN up
    ELSE IF side < 0 THEN up - 1
    ELSE IF up % 2 = 1 THEN up - 1 ELSE up

\* "%.2f" % pvalue, in hundredths; 10000 = 2^4 * 625.
Fmt2P(p) ==
    IF p % 100 = 50 THEN HalfWay((p + 50) \div 100, DoubleSide(p, 625))
    ELSE (p + 50) \div 100

\* floor(sqrt(n)) for 0 <= n < 2^31.
Isqrt(n) ==
    LET RECURSIVE S(_, _)
        S(lo, hi) == IF lo = hi THEN lo
                     ELSE Once((lo + hi + 1) \div 2, LAMBDA mid :
                              IF mid * mid <= n THEN S(mid, hi) ELSE S(lo, mid - 1))
    IN  S(0, 46340)

\* The hundredths "%.2f" prints for sqrt(q), the float cohend returns being
\* the one nearest to it.  With t = floor(200 * sqrt(q)), sqrt(q) is midway
\* between two hundredths when it is t / 200 and t is odd; 200 = 2^3 * 25.
Cents(q) ==
    Once(Isqrt((40000 * q.num) \div q.den), LAMBDA t :
        LET tie == (t % 2 = 1) /\ (t * t * q.den = 40000 * q.num)
            up == (t + 1) \div 2
        IN  IF tie THEN HalfWay(up, DoubleSide(t, 25)) ELSE up)

\* "%.2f" % dvalue: "nan", "inf", "-inf", or a sign and the hundredths (a
\* negative value that rounds to zero prints as -0.00).
Fmt2D(d) ==
    IF d.kind = "nan" THEN [kind |-> "nan", neg |-> FALSE, cents |-> 0]
    ELSE IF d.kind = "inf" THEN [kind |-> "inf", neg |-> d.sign < 0, cents |-> 0]
    ELSE [kind |-> "num", neg |-> d.sign < 0, cents |-> Cents(d.sq)]

\* Mutant of star_label: the first band starts above 0.01, not at it.
star_label_strict(pvalue, dvalue) ==
    IF pvalue > P01
    THEN [ptext |-> "p = %.2f", p2 |-> Fmt2P(pvalue), d |-> Fmt2D(dvalue)]
    ELSE IF pvalue >= P001
         THEN [ptext |-> "p < 0.01", p2 |-> -1, d |-> Fmt2D(dvalue)]
         ELSE [ptext |-> "p < 0.001", p2 |-> -1, d |-> Fmt2D(dvalue)]

\* The label: the text before " d = " (with the hundredths of p where the
\* text shows them, -1 where it does not) and the text of d.
star_label(pvalue, dvalue) ==
    IF pvalue >= P01
    THEN [ptext |-> "p = %.2f", p2 |-> Fmt2P(pvalue), d |-> Fmt2D(dvalue)]
    ELSE IF pvalue >= P001 /\ pvalue < P01
         THEN [ptext |-> "p < 0.01", p2 |-> -1, d |-> Fmt2D(dvalue)]
         ELSE [ptext |-> "p < 0.001", p2 |-> -1, d |-> Fmt2D(dvalue)]

(***************************************************************************)
(* tukeyhsd(x, Vax).                                                       *)
(***************************************************************************)
MaxGroups == 4     \* most groups compared

\* The p-values pairwise_tukeyhsd may answer for a pair.
TukeyP == {5, 300}

\* The axis limits Vax.get_ylim() may answer, in tenths (whole data units);
\* the last is an inverted axis.
YLims == {<<-20, 30>>, <<30, 10>>}

\* The sample of group n (counted from 0).
GroupData(n) == <<n, n + 1, 2 * n>>

Range(s) == {s[k] : k \in DOMAIN s}

Min(a, b) == IF a < b THEN a ELSE b

\* pairwise_tukeyhsd compares every two of the k groups: one p-value for
\* each pair (i, j), i < j, in the order of np.triu_indices(k, 1).
NPairs(k) == (k * (k - 1)) \div 2

TriuIndex(i, j, k) == i * k - (i * (i + 1)) \div 2 + (j - i - 1)

Pairs(k) == {ij \in (0..k - 1) \X (0..k - 1) : ij[1] < ij[2]}

\* The positions (counted from 0) among rem where p is least.
ArgMin(p, rem) == {c \in rem : \A e \in rem : p[c + 1] <= p[e + 1]}

\* What np.argsort(p)[0:m] may be: the default sort orders equal values in
\* no promised order, so the result begins any ascending arrangement of p.
\* Each position in turn is one where p is least among those not yet taken.
RECURSIVE SortedHeads(_, _, _)
SortedHeads(p, rem, h) ==
    IF h = 0 \/ rem = {} THEN {<<>>}
    ELSE UNION {{<<c>> \o t : t \in SortedHeads(p, rem \ {c}, h - 1)} :
                c \in ArgMin(p, rem)}

\* Mutants of argsort_head: the slice [0:3] forgotten; the sort descending;
\* the slice taken from 1.
argsort_head_unsliced(p, m) == SortedHeads(p, 0..Len(p) - 1, Len(p))

ArgMax(p, rem) == {c \in rem : \A e \in rem : p[c + 1] >= p[e + 1]}

RECURSIVE SortedHeadsDescending(_, _, _)
SortedHeadsDescending(p, rem, h) ==
    IF h = 0 \/ rem = {} THEN {<<>>}
    ELSE UNION {{<<c>> \o t : t \in SortedHeadsDescending(p, rem \ {c}, h - 1)} :
                c \in ArgMax(p, rem)}

argsort_head_descending(p, m) == SortedHeadsDescending(p, 0..Len(p) - 1, m)

argsort_head_from_one(p, m) == {Tail(s) : s \in SortedHeads(p, 0..Len(p) - 1, m + 1)}

argsort_head(p, m) == SortedHeads(p, 0..Len(p) - 1, m)

\* The locals of tukeyhsd when the loop of lines 135-163 starts.
LoopStart == [index |-> 0, height |-> Unset, scale |-> Unset,
              texts |-> <<>>, lines |-> <<>>]

\* Mutant of LoopBody: the offset counts the annotations already drawn, not
\* the pairs already visited.
LoopBody_by_rank(st, i, j, xx, pp, picked, lims) ==
    LET index == st.index
        height == lims[2]
        scale == (2 * Len(st.lines) * (lims[2] - lims[1])) \div 10
        txt == [x |-> 10,
                y |-> height + scale + (lims[2] - lims[1]) \div 10,
                s |-> Once(cohend(xx[i + 1], xx[j + 1]),
                           LAMBDA d : star_label(pp[index + 1], d))]
        line == [x0 |-> i, x1 |-> j, y |-> height + scale]
    IN  IF index \in picked
        THEN [index |-> index + 1, height |-> Bound(height), scale |-> Bound(scale),
              texts |-> Append(st.texts, txt), lines |-> Append(st.lines, line)]
        ELSE [st EXCEPT !.index = index + 1]

\* Lines 137-163 for one pair (i, j): annotate it if its index was picked,
\* then count it.
LoopBody(st, i, j, xx, pp, picked, lims) ==
    LET index == st.index
        height == lims[2]
        scale == (2 * index * (lims[2] - lims[1])) \div 10
        extra_alignment == 0
        pvalue == pp[index + 1]
        dvalue == cohend(xx[i + 1], xx[j + 1])
        txt == [x |-> 10,
                y |-> height + scale + (lims[2] - lims[1]) \div 10 + extra_alignment,
                s |-> Once(dvalue, LAMBDA d : star_label(pvalue, d))]
        line == [x0 |-> i, x1 |-> j, y |-> height + scale]
    IN  IF index \in picked
        THEN [index |-> index + 1, height |-> Bound(height), scale |-> Bound(scale),
              texts |-> Append(st.texts, txt), lines |-> Append(st.lines, line)]
        ELSE [st EXCEPT !.index = index + 1]

\* The two loops of lines 135-136 over the groups.
tukey_loop(xx, pp, picked, lims) ==
    LET k == Len(xx)
        RECURSIVE Loop(_, _, _)
        Loop(i, j, st) ==
            IF i >= k THEN st
            ELSE IF j >= k THEN Loop(i + 1, i + 2, st)
            ELSE Once(LoopBody(st, i, j, xx, pp, picked, lims),
                      LAMBDA nx : Loop(i, j + 1, nx))
    IN  Loop(0, 1, LoopStart)

\* Mutant of set_ylim: a margin of 0.1 of the range, not 0.2.
set_ylim_small_margin(st, lims) ==
    <<lims[1], Val(st.height) + Val(st.scale) + (lims[2] - lims[1]) \div 10>>

\* Line 166: the new limits, from the height and scale the loop left.
set_ylim(st, lims) ==
    <<lims[1], Val(st.height) + Val(st.scale) + (2 * (lims[2] - lims[1])) \div 10>>

\* The variables of the functions a specification is not about.
IdleCohend == d1 = <<>> /\ d2 = <<>> /\ dout = <<>>

IdleLabel == pv = 0 /\ dv = DNaN /\ label = Unset

IdleTukey == x = <<>> /\ pvalues = <<>> /\ Vax = Unset

IdleFit == fit = Unset /\ fitout = Unset

IdlePlot == plotin = Unset /\ plotout = Unset

InitTukey ==
    /\ call = [fn |-> "tukeyhsd", pc |-> "ready"]
    /\ \E k \in 2..MaxGroups :
          /\ x = [n \in 1..k |-> GroupData(n - 1)]
          /\ pvalues \in [1..NPairs(k) -> TukeyP]
    /\ \E yl \in YLims : Vax = [ylim |-> yl, texts |-> <<>>, lines |-> <<>>]
    /\ IdleCohend /\ IdleLabel /\ IdleFit /\ IdlePlot

\* One call of tukeyhsd.  Reading height or scale at line 166 when no pair
\* was annotated raises a NameError.
tukeyhsd ==
    /\ call = [fn |-> "tukeyhsd", pc |-> "ready"]
    /\ \E picked \in {Range(pos_p_values) : pos_p_values \in argsort_head(pvalues, 3)} :
          LET Vax_lims == Vax.ylim
          IN  \E st \in {tukey_loop(x, pvalues, picked, Vax_lims)} :
              IF st.height = Unset
              THEN /\ call' = [fn |-> "tukeyhsd", pc |-> "NameError"]
                   /\ Vax' = [Vax EXCEPT !.texts = st.texts, !.lines = st.lines]
              ELSE /\ call' = [fn |-> "tukeyhsd", pc |-> "done"]
                   /\ Vax' = [ylim |-> set_ylim(st, Vax_lims),
                              texts |-> st.texts, lines |-> st.lines]
    /\ UNCHANGED <<d1, d2, dout, x, pvalues, pv, dv, label, fit, fitout,
                   plotin, plotout>>

NextTukey == tukeyhsd

Spec == InitTukey /\ [][NextTukey]_vars

(***************************************************************************)
(* cohend called on two samples, and again with the samples exchanged.     *)
(***************************************************************************)
InitCohend ==
    /\ call = [fn |-> "cohend", pc |-> "ready"]
    /\ d1 \in Samples /\ d2 \in Samples /\ dout = <<>>
    /\ IdleLabel /\ IdleTukey /\ IdleFit /\ IdlePlot

call_cohend ==
    /\ call = [fn |-> "cohend", pc |-> "ready"]
    /\ dout' = <<cohend(d1, d2)>>
    /\ call' = [fn |-> "cohend", pc |-> "called"]
    /\ UNCHANGED <<d1, d2, x, pvalues, Vax, pv, dv, label, fit, fitout, plotin, plotout>>

call_cohend_exchanged ==
    /\ call = [fn |-> "cohend", pc |-> "called"]
    /\ dout' = Append(dout, cohend(d2, d1))
    /\ call' = [fn |-> "cohend", pc |-> "done"]
    /\ UNCHANGED <<d1, d2, x, pvalues, Vax, pv, dv, label, fit, fitout, plotin, plotout>>

NextCohend == call_cohend \/ call_cohend_exchanged

SpecCohend == InitCohend /\ [][NextCohend]_vars

(***************************************************************************)
(* The label of lines 149-154 for one p-value and one Cohen's d.           *)
(***************************************************************************)
\* Pairs of samples whose Cohen's d is midway between two hundredths:
\* 0.025, 0.005, 0.015, and 0.125 and 0.375, which are floats.
MidwayPairs == {<<<<0, 80>>, <<39, 39>>>>, <<<<0, 400>>, <<199, 199>>>>,
                <<<<0, 400>>, <<197, 197>>>>, <<<<0, 16>>, <<7, 7>>>>,
                <<<<0, 16>>, <<5, 5>>>>}

\* Cohen's d of some pairs of samples: nan, +-inf, zero, finite values of
\* both signs, and the values midway between two hundredths.
LabelD ==
    {cohend(a, b) : a, b \in {<<0, 1>>, <<1, 3>>, <<2, 2>>, <<0, 0>>, <<1>>}}
        \cup {cohend(ab[1], ab[2]) : ab \in MidwayPairs}
        \cup {cohend(ab[2], ab[1]) : ab \in MidwayPairs}

InitLabel ==
    /\ call = [fn |-> "star_label", pc |-> "ready"]
    /\ pv \in PGrid /\ dv \in LabelD /\ label = Unset
    /\ IdleCohend /\ IdleTukey /\ IdleFit /\ IdlePlot

make_label ==
    /\ call = [fn |-> "star_label", pc |-> "ready"]
    /\ label' = Bound(star_label(pv, dv))
    /\ call' = [fn |-> "star_label", pc |-> "done"]
    /\ UNCHANGED <<d1, d2, dout, x, pvalues, Vax, pv, dv, fit, fitout, plotin, plotout>>

NextLabel == make_label

SpecLabel == InitLabel /\ [][NextLabel]_vars

(***************************************************************************)
(* power_spectrum_fit(fx, PSD, fit_parameters).  The fitter is external:   *)
(* what fm.get_results() hands back is part of the state Init writes.  A   *)
(* spectrum is held by what it is computed from, point by point.           *)
(***************************************************************************)
MaxFreqs == 3      \* most frequencies in fx

MaxPeaks == 2      \* most peaks the fitter reports

\* (ctr, hgt, wid) of the peaks the fitter may report.
PeakSet == {<<10, 1, 2>>, <<20, 2, 1>>}

\* ap_params as the fitter may hand it back: a numpy array (offset,
\* exponent), or something that is no array when the fit failed.
ApResults == {[ndarray |-> FALSE, v |-> <<>>]} \cup
             {[ndarray |-> TRUE, v |-> <<o, e>>] : o \in 0..1, e \in 1..2}

InitFit ==
    /\ call = [fn |-> "power_spectrum_fit", pc |-> "ready"]
    /\ \E n \in 1..MaxFreqs, ap \in ApResults, m \in 0..MaxPeaks :
          \E g \in [1..m -> PeakSet] :
              fit = [fx |-> [k \in 1..n |-> k], ap_params |-> ap, gauss_params |-> g]
    /\ fitout = Unset
    /\ IdleCohend /\ IdleLabel /\ IdleTukey /\ IdlePlot

\* Lines 69-76 at the frequency f: 10^ys * ap_fit, with ys the sum of the
\* peaks at f and ap_fit = 10^offset / f^exponent.
sum_signal_at(f, ap, gauss) ==
    [ap_fit |-> [offset |-> ap[1], exponent |-> ap[2], fx |-> f],
     ys |-> [k \in 1..Len(gauss) |->
                [ctr |-> gauss[k][1], hgt |-> gauss[k][2], wid |-> gauss[k][3], fx |-> f]]]

\* Lines 67-76: sum_signal is assigned only when ap_params is an array.
fit_locals(f) ==
    IF f.ap_params.ndarray
    THEN Bound([k \in 1..Len(f.fx) |->
                   sum_signal_at(f.fx[k], f.ap_params.v, f.gauss_params)])
    ELSE Unset

\* Line 78: the list [ap_params, sum_signal]; naming a local that was never
\* assigned raises UnboundLocalError.
fit_return(f, sum_signal) ==
    IF sum_signal = Unset
    THEN [kind |-> "UnboundLocalError", value |-> <<>>]
    ELSE [kind |-> "return", value |-> <<f.ap_params, Val(sum_signal)>>]

power_spectrum_fit ==
    /\ call = [fn |-> "power_spectrum_fit", pc |-> "ready"]
    /\ fitout' = Bound(fit_return(fit, fit_locals(fit)))
    /\ call' = [fn |-> "power_spectrum_fit", pc |-> "done"]
    /\ UNCHANGED <<d1, d2, dout, x, pvalues, Vax, pv, dv, label, fit, plotin, plotout>>

NextFit == power_spectrum_fit

SpecFit == InitFit /\ [][NextFit]_vars

(***************************************************************************)
(* plot_MEG_volumes(diff, fig, axes, hemi, vmax, view, showcb).  The atlas *)
(* file holds one volume for each ROI; the image built from diff is held   *)
(* by the factor each ROI's volume was scaled with.                        *)
(***************************************************************************)
NROI == 38

MaxLen == 40       \* longest diff

\* The values of a diff of length n.
DiffData(n) == [k \in 1..n |-> 1 + (k % 3)]

InitPlot ==
    /\ call = [fn |-> "plot_MEG_volumes", pc |-> "ready"]
    /\ \E n \in 0..MaxLen, h \in {"left", "right"}, cb \in BOOLEAN :
          plotin = [diff |-> DiffData(n), hemi |-> h, showcb |-> cb]
    /\ plotout = Unset
    /\ IdleCohend /\ IdleLabel /\ IdleTukey /\ IdleFit

\* Mutant of roi_count: one turn of the loop for each value of diff.
roi_count_len(diff) == Len(diff)

\* How many ROIs the loop of line 193 visits.
roi_count(diff) == NROI

\* Lines 193-203: the volumes of the ROIs, each scaled by diff[ROI], added
\* up.  diff[ROI] past the end of diff raises IndexError.
RECURSIVE map_rois(_, _, _)
map_rois(diff, ROI, result_img) ==
    IF ROI >= roi_count(diff) THEN [kind |-> "ok", img |-> result_img]
    ELSE IF ROI >= Len(diff) THEN [kind |-> "IndexError", img |-> <<>>]
    ELSE Once(Append(result_img, diff[ROI + 1]),
              LAMBDA img : map_rois(diff, ROI + 1, img))

\* Lines 211-227: the surface plot of one hemisphere, drawn on the axes.
surf_plot(img, hemi, showcb) ==
    [hemi |-> IF hemi = "right" THEN "right" ELSE "left",
     colorbar |-> (hemi = "right" /\ showcb),
     texture |-> img]

\* Mutant of plot_result: the plot handed back.
plot_result_f(f) == [none |-> FALSE, obj |-> <<f>>]

\* What the call hands back: the function ends after line 227 with no
\* return statement, so None, whatever f holds.
plot_result(f) == [none |-> TRUE, obj |-> <<>>]

plot_MEG_volumes ==
    /\ call = [fn |-> "plot_MEG_volumes", pc |-> "ready"]
    /\ \E m \in {map_rois(plotin.diff, 0, <<>>)} :
          IF m.kind = "IndexError"
          THEN plotout' = Bound([kind |-> "IndexError", drawn |-> <<>>, value |-> <<>>])
          ELSE \E f \in {surf_plot(m.img, plotin.hemi, plotin.showcb)} :
                  plotout' = Bound([kind |-> "return", drawn |-> <<f>>,
                                    value |-> <<plot_result(f)>>])
    /\ call' = [fn |-> "plot_MEG_volumes", pc |-> "done"]
    /\ UNCHANGED <<d1, d2, dout, x, pvalues, Vax, pv, dv, label, fit, fitout, plotin>>

NextPlot == plot_MEG_volumes

SpecPlot == InitPlot /\ [][NextPlot]_vars

(***************************************************************************)
(* The claims about tukeyhsd, checked under Spec.                          *)
(***************************************************************************)
TukeyDone == call = [fn |-> "tukeyhsd", pc |-> "done"]

\* The pair a drawn line connects, and the pairs annotated.
LinePair(ln) == <<ln.x0, ln.x1>>

AnnPairs(ax) == {LinePair(ax.lines[n]) : n \in DOMAIN ax.lines}

\* The p-value pairwise_tukeyhsd answered for the pair (i, j).
PairP(ij) == pvalues[TriuIndex(ij[1], ij[2], Len(x)) + 1]

\* The row-major positions (counted from 0) of the pairs annotated.
AnnPos(ax) == {TriuIndex(ax.lines[n].x0, ax.lines[n].x1, Len(x)) : n \in DOMAIN ax.lines}

\* The positions an ascending stable sort of the p-values puts first: those
\* with fewer than three positions before them, a position being before
\* another when its p-value is smaller, or equal and it comes first.
StableTop3 ==
    LET all == 0..Len(pvalues) - 1
        Before(a, b) == \/ pvalues[a + 1] < pvalues[b + 1]
                        \/ pvalues[a + 1] = pvalues[b + 1] /\ a < b
    IN  {b \in all : Cardinality({a \in all : Before(a, b)}) < 3}

\* C1: with k >= 3 groups the call has k*(k-1)/2 p-values, annotates
\* exactly 3 distinct pairs, and no annotated pair has a larger p-value than
\* a pair left out.
C1_ThreeSmallest ==
    (call.pc # "ready" /\ Len(x) >= 3) =>
        /\ TukeyDone
        /\ 2 * Len(pvalues) = Len(x) * (Len(x) - 1)
        /\ Len(Vax.lines) = 3 /\ Len(Vax.texts) = 3
        /\ \A ann \in {AnnPairs(Vax)} :
               /\ Cardinality(ann) = 3
               /\ ann \subseteq Pairs(Len(x))
               /\ \A a \in ann, b \in Pairs(Len(x)) \ ann : PairP(a) <= PairP(b)

\* Four groups, six p-values, three annotated, one of them with a p-value
\* strictly below that of a pair left out.
C1_Witness ==
    /\ TukeyDone /\ Len(x) = 4 /\ Len(pvalues) = 6 /\ Len(Vax.lines) = 3
    /\ \E a \in AnnPairs(Vax), b \in Pairs(4) \ AnnPairs(Vax) : PairP(a) < PairP(b)

\* C2 as claimed: the pairs annotated are always the ones a stable
\* ascending sort puts first, so ties at the boundary go to the pairs that
\* come first in row-major order.
C2_StableSelection == TukeyDone => AnnPos(Vax) = StableTop3

\* C2 as amended: every pair whose p-value is below the largest p-value of
\* the stable choice is annotated, the others annotated have exactly that
\* p-value, as many pairs are annotated as in the stable choice, and the two
\* choices are the same whenever no pair left out by the stable choice ties
\* with one it takes.  (edge is the largest p-value of the stable choice.)
C2_TiesUnordered ==
    TukeyDone =>
        \A all \in {0..Len(pvalues) - 1}, top \in {StableTop3}, ann \in {AnnPos(Vax)} :
            \A edge \in {pvalues[1 + CHOOSE b \in top : \A a \in top : pvalues[a + 1] <= pvalues[b + 1]]} :
                /\ \A a \in all : pvalues[a + 1] < edge => a \in ann
                /\ \A a \in ann : a \in all /\ pvalues[a + 1] <= edge
                /\ Cardinality(ann) = Cardinality(top)
                /\ (\A c \in all \ top : pvalues[c + 1] # edge) => ann = top

\* A tie at the boundary settled against row-major order: a pair left out
\* by the stable choice is annotated.
C2_Witness ==
    /\ TukeyDone /\ Len(x) = 4
    /\ AnnPos(Vax) # StableTop3
    /\ \E a \in AnnPos(Vax) \ StableTop3, b \in StableTop3 \ AnnPos(Vax) :
           pvalues[a + 1] = pvalues[b + 1]

\* C4: the line of an annotated pair (i, j), i < j, runs from x = i to
\* x = j at y_max + 0.2 * idx * (y_max - y_min), idx the row-major position
\* of the pair and the limits those read before the call drew anything; its
\* label sits 0.1 * (y_max - y_min) higher and is the label of the p-value
\* at idx and of Cohen's d of the groups i and j.
C4_LinePlacement ==
    [][(call.pc = "ready" /\ call'.pc = "done") =>
          /\ Len(Vax'.texts) = Len(Vax'.lines)
          /\ \A n \in DOMAIN Vax'.lines :
                LET ln == Vax'.lines[n]
                    tx == Vax'.texts[n]
                    k == Len(x)
                    idx == Cardinality({b \in Pairs(k) :
                               b[1] < ln.x0 \/ (b[1] = ln.x0 /\ b[2] < ln.x1)})
                    R == Vax.ylim[2] - Vax.ylim[1]
                IN  /\ ln.x0 < ln.x1 /\ ln.x1 < k /\ ln.x0 >= 0
                    /\ 10 * ln.y = 10 * Vax.ylim[2] + 2 * idx * R
                    /\ 10 * tx.y = 10 * ln.y + R
                    /\ tx.s = star_label(pvalues[idx + 1], cohend(x[ln.x0 + 1], x[ln.x1 + 1]))
    ]_vars

\* Two annotated pairs of four groups, the one later in row-major order
\* (and so drawn further from the axis maximum) with the smaller p-value.
C4_Witness ==
    /\ TukeyDone /\ Len(x) = 4 /\ Vax.ylim[1] = -20
    /\ \E n, m \in DOMAIN Vax.lines :
          /\ n < m /\ Vax.lines[n].y < Vax.lines[m].y
          /\ PairP(LinePair(Vax.lines[m])) < PairP(LinePair(Vax.lines[n]))
          /\ Vax.texts[m].s.ptext = "p < 0.001" /\ Vax.texts[n].s.ptext = "p = %.2f"

\* C5: on an axis with y_min < y_max the upper limit after the call is
\* above every line and every label drawn, it is the highest line's height
\* plus 0.2 * (y_max - y_min), and the lower limit is what it was.
C5_LimitsAboveAll ==
    [][(call.pc = "ready" /\ call'.pc = "done" /\ Vax.ylim[1] < Vax.ylim[2]) =>
          LET R == Vax.ylim[2] - Vax.ylim[1]
              top == Vax'.ylim[2]
              ys == {Vax'.lines[n].y : n \in DOMAIN Vax'.lines}
          IN  /\ \A n \in DOMAIN Vax'.lines : Vax'.lines[n].y < top
              /\ \A n \in DOMAIN Vax'.texts : Vax'.texts[n].y < top
              /\ \E hi \in ys : (\A y \in ys : y <= hi) /\ 10 * top = 10 * hi + 2 * R
              /\ Vax'.ylim[1] = Vax.ylim[1]
    ]_vars

\* Three annotations drawn on the axis from -2 to 3, and the upper limit
\* moved above the highest of them.
C5_Witness ==
    /\ TukeyDone /\ Len(Vax.lines) = 3 /\ Vax.ylim[1] = -20
    /\ Vax.ylim[2] > 30
    /\ \E n \in DOMAIN Vax.texts : Vax.texts[n].y > 30

\* C10: with k >= 2 groups the call ends without an error, annotates
\* min(3, k*(k-1)/2) pairs, and the new upper limit is the height of the
\* line drawn last plus 0.2 * (y_max - y_min).
C10_Completes ==
    [][call.pc = "ready" =>
          LET np == (Len(x) * (Len(x) - 1)) \div 2
              R == Vax.ylim[2] - Vax.ylim[1]
              drawn == Vax'.lines
          IN  /\ Len(x) >= 2
              /\ call'.pc = "done"
              /\ Len(drawn) = (IF np < 3 THEN np ELSE 3)
              /\ Len(drawn) >= 1
              /\ 10 * Vax'.ylim[2] = 10 * drawn[Len(drawn)].y + 2 * R
    ]_vars

\* Two groups: the one pair there is has been annotated and the limits
\* set.
C10_Witness ==
    /\ TukeyDone /\ Len(x) = 2 /\ Len(pvalues) = 1
    /\ Len(Vax.lines) = 1 /\ LinePair(Vax.lines[1]) = <<0, 1>>
    /\ Vax.ylim[2] > Vax.lines[1].y

(***************************************************************************)
(* The claim about the label, checked under SpecLabel.                     *)
(***************************************************************************)
\* C3: the text of the label follows the band of the p-value: "p = X.XX"
\* with X.XX the hundredth nearest to p when p >= 0.01, "p < 0.01" when
\* 0.001 <= p < 0.01, "p < 0.001" when p < 0.001; each p-value is in one
\* band only; and d is shown in each, a finite d as the hundredth nearest
\* to it with its sign.
C3_LabelBands ==
    call = [fn |-> "star_label", pc |-> "done"] =>
        LET L == Val(label)
            band == IF pv >= 100 THEN "p = %.2f"
                    ELSE IF pv >= 10 THEN "p < 0.01" ELSE "p < 0.001"
        IN  /\ L.ptext = band
            /\ Cardinality({b \in {"p = %.2f", "p < 0.01", "p < 0.001"} : L.ptext = b}) = 1
            /\ (pv >= 100) => (100 * L.p2 - 50 <= pv /\ pv <= 100 * L.p2 + 50)
            /\ (pv < 100) => L.p2 = -1
            /\ L.d.kind = (IF dv.kind = "fin" THEN "num" ELSE dv.kind)
            /\ L.d.neg = (dv.sign < 0)
            /\ dv.kind = "fin" =>
                  LET c == L.d.cents
                  IN  /\ c >= 0
                      /\ c > 0 => (2 * c - 1) * (2 * c - 1) * dv.sq.den <= 40000 * dv.sq.num
                      /\ 40000 * dv.sq.num <= (2 * c + 1) * (2 * c + 1) * dv.sq.den

\* The label of p = 0.01, the lowest p-value of the first band, with a
\* negative d.
C3_Witness ==
    /\ call = [fn |-> "star_label", pc |-> "done"]
    /\ pv = 100 /\ Val(label).ptext = "p = %.2f" /\ Val(label).p2 = 1
    /\ Val(label).d.kind = "num" /\ Val(label).d.neg /\ Val(label).d.cents > 0

(***************************************************************************)
(* The claim about cohend, checked under SpecCohend.                       *)
(***************************************************************************)
CohendDone == call = [fn |-> "cohend", pc |-> "done"]

\* The pooled standard deviation is zero when neither sample varies.
PooledZero == /\ ~np_var(d1).nan /\ np_var(d1).num = 0
              /\ ~np_var(d2).nan /\ np_var(d2).num = 0

\* The pooled standard deviation is a number other than zero.
PooledNonZero == /\ ~np_var(d1).nan /\ ~np_var(d2).nan
                 /\ (np_var(d1).num # 0 \/ np_var(d2).num # 0)

\* C8 as claimed: whenever len(a) + len(b) > 2 and the pooled standard
\* deviation is not zero, cohend(a, b) == -cohend(b, a).
C8_Antisymmetric ==
    (CohendDone /\ Len(d1) + Len(d2) > 2 /\ ~PooledZero) =>
        DEq(dout[1], DNeg(dout[2]))

\* C8 as amended: whenever both samples have at least two values and the
\* pooled standard deviation is not zero, cohend(a, b) == -cohend(b, a);
\* with a sample of fewer than two values both calls return nan.
C8_AntisymmetricTwoEach ==
    CohendDone =>
        /\ (Len(d1) >= 2 /\ Len(d2) >= 2 /\ PooledNonZero) =>
               /\ dout[1].kind = "fin" /\ dout[2].kind = "fin"
               /\ DEq(dout[1], DNeg(dout[2]))
        /\ (Len(d1) < 2 \/ Len(d2) < 2) =>
               dout[1].kind = "nan" /\ dout[2].kind = "nan"

\* Two samples of two values, with different variances: a positive d one
\* way and the same d, negative, the other way.
C8_Witness ==
    /\ CohendDone /\ Len(d1) = 2 /\ Len(d2) = 2
    /\ np_var(d1) # np_var(d2)
    /\ dout[1].kind = "fin" /\ dout[1].sign = 1 /\ dout[2].sign = -1
    /\ dout[1].sq = dout[2].sq

(***************************************************************************)
(* The claim about power_spectrum_fit, checked under SpecFit.              *)
(***************************************************************************)
FitDone == call = [fn |-> "power_spectrum_fit", pc |-> "done"]

\* C7 as claimed: when ap_params is no array the call returns, with
\* ap_params in the first place of the list returned.
C7_SilentReturn ==
    (FitDone /\ ~fit.ap_params.ndarray) =>
        /\ Val(fitout).kind = "return"
        /\ Val(fitout).value[1] = fit.ap_params

\* The failing input of C7: a failed fit over three frequencies, with peaks
\* reported.  Line 78 reads sum_signal, which line 67 left unassigned, and
\* the call has raised UnboundLocalError instead of returning.
C7_Witness ==
    /\ FitDone /\ ~fit.ap_params.ndarray /\ Len(fit.fx) = 3
    /\ Len(fit.gauss_params) = 2
    /\ Val(fitout).kind = "UnboundLocalError"

(***************************************************************************)
(* The claims about plot_MEG_volumes, checked under SpecPlot.              *)
(***************************************************************************)
PlotDone == call = [fn |-> "plot_MEG_volumes", pc |-> "done"]

\* C6 as claimed: a diff whose length is not 38 makes the call fail.
C6_FailsUnless38 ==
    (PlotDone /\ Len(plotin.diff) # 38) => Val(plotout).kind # "return"

\* C6 as amended: a diff shorter than 38 makes the call fail with an
\* IndexError before anything is drawn; a diff of 38 values or more is
\* plotted from its first 38 values, the others ignored.
C6_ShortFailsLongTruncated ==
    PlotDone =>
        /\ Len(plotin.diff) < 38 =>
               Val(plotout).kind = "IndexError" /\ Val(plotout).drawn = <<>>
        /\ Len(plotin.diff) >= 38 =>
               /\ Val(plotout).kind = "return"
               /\ Val(plotout).drawn[1].texture = SubSeq(plotin.diff, 1, 38)

\* A diff of 40 values, plotted from 38 of them.
C6_Witness ==
    /\ PlotDone /\ Len(plotin.diff) = 40
    /\ Val(plotout).kind = "return"
    /\ Len(Val(plotout).drawn[1].texture) = 38

\* C9 as claimed: the call hands back the plot it drew, for either
\* hemisphere.
C9_ReturnsPlot ==
    (PlotDone /\ Val(plotout).kind = "return") =>
        /\ ~Val(plotout).value[1].none
        /\ Val(plotout).value[1].obj = Val(plotout).drawn

\* C9 as amended: the call draws the plot of the hemisphere asked for (with
\* a colorbar only on the right one, when asked) and hands back None, for
\* either hemisphere.
C9_ReturnsNone ==
    (PlotDone /\ Val(plotout).kind = "return") =>
        /\ Val(plotout).value[1].none /\ Val(plotout).value[1].obj = <<>>
        /\ Len(Val(plotout).drawn) = 1
        /\ Val(plotout).drawn[1].hemi = plotin.hemi
        /\ Val(plotout).drawn[1].colorbar = (plotin.hemi = "right" /\ plotin.showcb)

\* The right hemisphere plotted with its colorbar, and None handed back.
C9_Witness ==
    /\ PlotDone /\ plotin.hemi = "right" /\ plotin.showcb
    /\ Val(plotout).kind = "return"
    /\ Val(plotout).drawn[1].colorbar
    /\ Val(plotout).value[1].none
====
